---- MODULE Spec2Model ----
(***************************************************************************)
(* Model of Code/mesh/capsule2D.py (class Capsule2D and its script).       *)
(*                                                                         *)
(* Lengths are integers in units of 1e-7 m.  The diameter is a multiple of *)
(* 0.1 m, so that every "v/0.4*diameter" of the source is exact.  Sines,   *)
(* cosines and cotangents of the six fixed angles are tabulated in 1e-6.   *)
(***************************************************************************)
EXTENDS Integers, Sequences, FiniteSets, TLC

\* ------------------------------------------------------------------------
\* Bounds
\* ------------------------------------------------------------------------
\* diameters are 0.1 m .. MaxDiameter * 0.1 m
MaxDiameter == 8

Diameters == 1..MaxDiameter

\* ------------------------------------------------------------------------
\* Fixed-point arithmetic
\* ------------------------------------------------------------------------
Unit == 10000000

Abs(a) == IF a < 0 THEN -a ELSE a

Sgn(a) == IF a < 0 THEN -1 ELSE 1

\* a * b, a in length units, b a factor in 1e-6; truncated toward zero.
\* The product is split in base 1000 so that no partial product leaves
\* 32 bits.
Mul6(a, b) ==
    LET a1 == Abs(a) \div 1000
        a0 == Abs(a) % 1000
        b1 == Abs(b) \div 1000
        b0 == Abs(b) % 1000
    IN  Sgn(a) * Sgn(b) *
        (a1 * b1 + ((a1 * b0 + a0 * b1 + ((a0 * b0) \div 1000)) \div 1000))

\* a / n truncated toward zero, n > 0
DivT(a, n) == Sgn(a) * (Abs(a) \div n)

RECURSIVE Pow10(_)
Pow10(n) == IF n = 0 THEN 1 ELSE 10 * Pow10(n - 1)

RECURSIVE FracDigits(_, _, _)
\* the first n decimal digits of r / m, for 0 <= r < m
FracDigits(r, m, n) ==
    IF n = 0 THEN 0
    ELSE ((r * 10) \div m) * Pow10(n - 1) + FracDigits((r * 10) % m, m, n - 1)

\* x / x0 as a factor in 1e-6, for |x| <= |x0|, x0 # 0
Div6(x, x0) ==
    IF Abs(x) = Abs(x0) THEN Sgn(x) * Sgn(x0) * 1000000
    ELSE Sgn(x) * Sgn(x0) * FracDigits(Abs(x), Abs(x0), 6)

\* round(v, 4): to the nearest multiple of 1e-4 m, ties to even
Round4(v) ==
    LET q == Abs(v) \div 1000
        r == Abs(v) % 1000
        up == \/ r > 500
              \/ r = 500 /\ q % 2 = 1
    IN  Sgn(v) * 1000 * (IF up THEN q + 1 ELSE q)

\* ------------------------------------------------------------------------
\* numpy helpers used by the class
\* ------------------------------------------------------------------------
\* np.cos(np.deg2rad(teta)), in 1e-6, for the angles the class uses
Cos6(teta) ==
    CASE teta = 170 -> -984808
      [] teta = 155 -> -906308
      [] teta = 75  -> 258819
      [] teta = 60  -> 500000
      [] teta = 45  -> 707107
      [] teta = 23  -> 920505

\* np.sin(np.deg2rad(teta)), in 1e-6
Sin6(teta) ==
    CASE teta = 170 -> 173648
      [] teta = 155 -> 422618
      [] teta = 75  -> 965926
      [] teta = 60  -> 866025
      [] teta = 45  -> 707107
      [] teta = 23  -> 390731

\* 1/np.tan(np.deg2rad(teta)), in 1e-6, for the two spline angles
Cot6(teta) ==
    CASE teta = 155 -> -2144507
      [] teta = 75  -> 267949

\* np.linspace(start, 0, n)[i], i = 0..n-1: start + i*step, the last
\* sample being the stop value itself
Linspace0(start, n) ==
    [j \in 1..n |-> IF j = n THEN 0
                    ELSE start + DivT((j - 1) * (0 - start), n - 1)]

\* "v / 0.4 * diameter" (the reference diameter is 0.4 m)
PerRef(v, diameter) == (v * (diameter \div (Unit \div 10))) \div 4

\* ------------------------------------------------------------------------
\* Capsule2D static methods
\* ------------------------------------------------------------------------
circle(x0, z0, r, teta) ==
    << x0 + Mul6(r, Cos6(teta)), z0 + Mul6(r, Sin6(teta)) >>

\* z(x) = a x^3 + b x^2 + c x + d with
\*   d = posZmax/0.4*diameter, c = 0,
\*   b = 3/x0^2 * E,  E = R sin(teta0) + x0/(3 tan(teta0)) - d,
\*   a = 1/(3 x0^2) * (-1/tan(teta0) - 2 b x0).
\* With q = x/x0 this is  d + 3 E q^2 - 2 E q^3 - (x /(3 tan(teta0))) q^2,
\* the form evaluated here (no division by x0^2 in fixed point).
SplineZ(x0, x, teta0, R, diameter, posZmax) ==
    LET d  == PerRef(posZmax, diameter)
        E  == Mul6(R, Sin6(teta0)) + DivT(Mul6(x0, Cot6(teta0)), 3) - d
        q  == Div6(x, x0)
        q2 == Mul6(q, q)
        q3 == Mul6(q2, q)
    IN  d + Mul6(3 * E, q2) - Mul6(2 * E, q3)
          - Mul6(DivT(Mul6(x, Cot6(teta0)), 3), q2)

splines(x0, x, teta0, R, diameter, posZmax) ==
    [j \in DOMAIN x |-> SplineZ(x0, x[j], teta0, R, diameter, posZmax)]

\* ------------------------------------------------------------------------
\* Instance attributes: the object is a function from the names of the
\* attributes assigned so far to their values.  Reading a name outside its
\* domain is Python's AttributeError.
\* ------------------------------------------------------------------------
SetAttr(o, name, val) ==
    [n \in (DOMAIN o) \cup {name} |-> IF n = name THEN val ELSE o[n]]

\* Capsule2D.__init__(diameter); expansion rates are kept in 1/1000
Constructor(diameter) ==
    [ diameter |-> diameter,
      radius   |-> diameter \div 2,
      Nx |-> 41, Ny |-> 1, Nz |-> 121,
      expandX |-> 1, expandY |-> 1000, expandZ |-> 1000,
      posXmax |-> 4 * Unit,
      negXmax |-> -2 * Unit,
      posYmax |-> Unit \div 10,
      negYmax |-> -(Unit \div 10),
      posZmax |-> 4 * Unit,
      negZmax |-> 4 * Unit,
      dteta12 |-> 170, dteta2 |-> 155, dteta4 |-> 75,
      dteta45 |-> 60, dteta5 |-> 45, dteta56 |-> 23,
      ex0 |-> 0, ez0 |-> 0,
      ex1 |-> PerRef(-2 * Unit, diameter), ez1 |-> 0,
      ex3 |-> 0, ez3 |-> PerRef(4 * Unit, diameter),
      ex6 |-> PerRef(4 * Unit, diameter), ez6 |-> 0 ]

inlet_circle(o) ==
    LET x6  == o.ex6
        z6  == o.ez6
        r   == PerRef(o.posXmax - o.ex1, o.diameter)
        p12 == circle(x6, z6, r, o.dteta12)
        p2  == circle(x6, z6, r, o.dteta2)
    IN  SetAttr(SetAttr(SetAttr(SetAttr(o,
            "ex12", p12[1]), "ez12", p12[2]), "ex2", p2[1]), "ez2", p2[2])

outlet_circle(o) ==
    LET x0  == o.ex0
        z0  == o.ez0
        r   == PerRef(o.posXmax, o.diameter)
        p4  == circle(x0, z0, r, o.dteta4)
        p45 == circle(x0, z0, r, o.dteta45)
        p5  == circle(x0, z0, r, o.dteta5)
        p56 == circle(x0, z0, r, o.dteta56)
    IN  SetAttr(SetAttr(SetAttr(SetAttr(
        SetAttr(SetAttr(SetAttr(SetAttr(o,
            "ex4", p4[1]), "ez4", p4[2]), "ex45", p45[1]), "ez45", p45[2]),
            "ex5", p5[1]), "ez5", p5[2]), "ex56", p56[1]), "ez56", p56[2])

main_points(o) == outlet_circle(inlet_circle(o))

\* number of samples of np.linspace in inlet_spline and outlet_spline
NSpline == 10

\* inlet_spline reads self.ex2 first; R = (4 - self.ex1)/0.4 * diameter
inlet_spline(o) ==
    LET ex23 == Linspace0(o.ex2, NSpline)
        R    == PerRef(4 * Unit - o.ex1, o.diameter)
    IN  SetAttr(SetAttr(o, "ex23", ex23), "ez23",
            splines(o.ex2, ex23, o.dteta2, R, o.diameter, o.posZmax))

\* outlet_spline reads self.ex4 first; r = 4/0.4 * diameter
outlet_spline(o) ==
    LET ex34 == Linspace0(o.ex4, NSpline)
        r    == PerRef(4 * Unit, o.diameter)
    IN  SetAttr(SetAttr(o, "ex34", ex34), "ez34",
            splines(o.ex4, ex34, o.dteta4, r, o.diameter, o.posZmax))

\* capsule_points: explicit coordinates times ratio = diameter/0.4
capsule_points(o) ==
    LET pts == << <<"cx1",  PerRef(-1200000, o.diameter)>>,
                  <<"cz1",  0>>,
                  <<"cx12", PerRef(-1079380, o.diameter)>>,
                  <<"cz12", PerRef(684040, o.diameter)>>,
                  <<"cx2",  PerRef(-800000, o.diameter)>>,
                  <<"cz2",  PerRef(1200000, o.diameter)>>,
                  <<"cx3",  PerRef(-400000, o.diameter)>>,
                  <<"cz3",  PerRef(1600000, o.diameter)>>,
                  <<"cx4",  0>>,
                  <<"cz4",  o.diameter \div 2>>,
                  <<"cx5",  PerRef(800000, o.diameter)>>,
                  <<"cz5",  PerRef(1200000, o.diameter)>>,
                  <<"cx6",  PerRef(800000, o.diameter)>>,
                  <<"cz6",  PerRef(0, o.diameter)>> >>
    IN  [n \in (DOMAIN o) \cup {pts[j][1] : j \in DOMAIN pts} |->
            IF \E j \in DOMAIN pts : pts[j][1] = n
            THEN LET j == CHOOSE j \in DOMAIN pts : pts[j][1] = n
                 IN  pts[j][2]
            ELSE o[n]]

\* the attributes that hold numpy arrays
ArrayAttrs == {"ex23", "ez23", "ex34", "ez34"}

\* +v or -v, of a float or elementwise of a numpy array
Signed(sign, v, isArray) ==
    IF isArray THEN [j \in DOMAIN v |-> sign * v[j]] ELSE sign * v

\* as BottomAssignments, the minus sign of ez8 left out
BottomAssignments_nosign ==
    << <<"ex67", "ex56", 1>>,   <<"ez67", "ez56", -1>>,
       <<"ex7", "ex5", 1>>,     <<"ez7", "ez5", -1>>,
       <<"ex78", "ex45", 1>>,   <<"ez78", "ez45", -1>>,
       <<"ex8", "ex4", 1>>,     <<"ez8", "ez4", 1>>,
       <<"ex89", "ex34", 1>>,   <<"ez89", "ez34", -1>>,
       <<"ex9", "ex3", 1>>,     <<"ez9", "ez3", -1>>,
       <<"ex910", "ex23", 1>>,  <<"ez910", "ez23", -1>>,
       <<"ex10", "ex2", 1>>,    <<"ez10", "ez2", -1>>,
       <<"ex1011", "ex12", 1>>, <<"ez1011", "ez12", -1>>,
       <<"cx7", "cx5", 1>>,     <<"cz7", "cz5", -1>>,
       <<"cx8", "cx4", 1>>,     <<"cz8", "cz4", -1>>,
       <<"cx9", "cx3", 1>>,     <<"cz9", "cz3", -1>>,
       <<"cx10", "cx2", 1>>,    <<"cz10", "cz2", -1>>,
       <<"cx1011", "cx12", 1>>, <<"cz1011", "cz12", -1>> >>

\* the assignments of bottom_points in program order: target, source, sign
BottomAssignments ==
    << <<"ex67", "ex56", 1>>,   <<"ez67", "ez56", -1>>,
       <<"ex7", "ex5", 1>>,     <<"ez7", "ez5", -1>>,
       <<"ex78", "ex45", 1>>,   <<"ez78", "ez45", -1>>,
       <<"ex8", "ex4", 1>>,     <<"ez8", "ez4", -1>>,
       <<"ex89", "ex34", 1>>,   <<"ez89", "ez34", -1>>,
       <<"ex9", "ex3", 1>>,     <<"ez9", "ez3", -1>>,
       <<"ex910", "ex23", 1>>,  <<"ez910", "ez23", -1>>,
       <<"ex10", "ex2", 1>>,    <<"ez10", "ez2", -1>>,
       <<"ex1011", "ex12", 1>>, <<"ez1011", "ez12", -1>>,
       <<"cx7", "cx5", 1>>,     <<"cz7", "cz5", -1>>,
       <<"cx8", "cx4", 1>>,     <<"cz8", "cz4", -1>>,
       <<"cx9", "cx3", 1>>,     <<"cz9", "cz3", -1>>,
       <<"cx10", "cx2", 1>>,    <<"cz10", "cz2", -1>>,
       <<"cx1011", "cx12", 1>>, <<"cz1011", "cz12", -1>> >>

RECURSIVE BottomFrom_skip(_, _)
\* as BottomFrom, an assignment whose source is missing being skipped
BottomFrom_skip(o, j) ==
    IF j > Len(BottomAssignments) THEN [obj |-> o, ok |-> TRUE]
    ELSE LET a == BottomAssignments[j]
         IN  IF a[2] \notin DOMAIN o THEN BottomFrom_skip(o, j + 1)
             ELSE BottomFrom_skip(
                     SetAttr(o, a[1],
                             Signed(a[3], o[a[2]], a[2] \in ArrayAttrs)),
                     j + 1)

RECURSIVE BottomFrom(_, _)
\* runs the assignments from the j-th on; stops at the first source that
\* was never assigned (AttributeError), keeping what was assigned before
BottomFrom(o, j) ==
    IF j > Len(BottomAssignments) THEN [obj |-> o, ok |-> TRUE]
    ELSE LET a == BottomAssignments[j]
         IN  IF a[2] \notin DOMAIN o THEN [obj |-> o, ok |-> FALSE]
             ELSE BottomFrom(
                     SetAttr(o, a[1],
                             Signed(a[3], o[a[2]], a[2] \in ArrayAttrs)),
                     j + 1)

bottom_points(o) == BottomFrom(o, 1)

\* ------------------------------------------------------------------------
\* to_blockMesh_dict2: the tables of the method, in program order
\* ------------------------------------------------------------------------
\* basevs: x attribute, y attribute, z attribute, name
TopExternalVs ==
    << <<"ex0", "posYmax", "ez0", "v0f">>, <<"ex1", "posYmax", "ez1", "v1f">>,
       <<"ex2", "posYmax", "ez2", "v2f">>, <<"ex3", "posYmax", "ez3", "v3f">>,
       <<"ex4", "posYmax", "ez4", "v4f">>, <<"ex5", "posYmax", "ez5", "v5f">>,
       <<"ex6", "posYmax", "ez6", "v6f">>,
       <<"ex0", "negYmax", "ez0", "v0b">>, <<"ex1", "negYmax", "ez1", "v1b">>,
       <<"ex2", "negYmax", "ez2", "v2b">>, <<"ex3", "negYmax", "ez3", "v3b">>,
       <<"ex4", "negYmax", "ez4", "v4b">>, <<"ex5", "negYmax", "ez5", "v5b">>,
       <<"ex6", "negYmax", "ez6", "v6b">> >>

TopCapsuleVs ==
    << <<"cx1", "posYmax", "cz1", "c1f">>, <<"cx12", "posYmax", "cz12", "c12f">>,
       <<"cx2", "posYmax", "cz2", "c2f">>, <<"cx3", "posYmax", "cz3", "c3f">>,
       <<"cx4", "posYmax", "cz4", "c4f">>, <<"cx5", "posYmax", "cz5", "c5f">>,
       <<"cx6", "posYmax", "cz6", "c6f">>,
       <<"cx1", "negYmax", "cz1", "c1b">>, <<"cx12", "negYmax", "cz12", "c12b">>,
       <<"cx2", "negYmax", "cz2", "c2b">>, <<"cx3", "negYmax", "cz3", "c3b">>,
       <<"cx4", "negYmax", "cz4", "c4b">>, <<"cx5", "negYmax", "cz5", "c5b">>,
       <<"cx6", "negYmax", "cz6", "c6b">> >>

\* as BottomExternalVs, the name of station 10 front typed as 'v1f'
BottomExternalVs_typo ==
    << <<"ex7", "posYmax", "ez7", "v7f">>, <<"ex8", "posYmax", "ez8", "v8f">>,
       <<"ex9", "posYmax", "ez9", "v9f">>, <<"ex10", "posYmax", "ez10", "v1f">>,
       <<"ex7", "negYmax", "ez7", "v7b">>, <<"ex8", "negYmax", "ez8", "v8b">>,
       <<"ex9", "negYmax", "ez9", "v9b">>, <<"ex10", "negYmax", "ez10", "v10b">> >>

BottomExternalVs ==
    << <<"ex7", "posYmax", "ez7", "v7f">>, <<"ex8", "posYmax", "ez8", "v8f">>,
       <<"ex9", "posYmax", "ez9", "v9f">>, <<"ex10", "posYmax", "ez10", "v10f">>,
       <<"ex7", "negYmax", "ez7", "v7b">>, <<"ex8", "negYmax", "ez8", "v8b">>,
       <<"ex9", "negYmax", "ez9", "v9b">>, <<"ex10", "negYmax", "ez10", "v10b">> >>

BottomCapsuleVs ==
    << <<"cx7", "posYmax", "cz7", "c7f">>, <<"cx8", "posYmax", "cz8", "c8f">>,
       <<"cx9", "posYmax", "cz9", "c9f">>, <<"cx10", "posYmax", "cz10", "c10f">>,
       <<"cx7", "negYmax", "cz7", "c7b">>, <<"cx8", "negYmax", "cz8", "c8b">>,
       <<"cx9", "negYmax", "cz9", "c9b">>, <<"cx10", "negYmax", "cz10", "c10b">> >>

BaseVs == TopExternalVs \o TopCapsuleVs \o BottomExternalVs \o BottomCapsuleVs

\* Vertex(x, y, z, name)
Vertex(x, y, z, name) == [x |-> x, y |-> y, z |-> z, name |-> name]

\* the names of the two halves and of the two sides, as the source groups
\* them under "Top part" / "Bottom part" and posYmax / negYmax
TopNames == {e[4] : e \in {TopExternalVs[j] : j \in DOMAIN TopExternalVs}
                        \cup {TopCapsuleVs[j] : j \in DOMAIN TopCapsuleVs}}

BottomNames == {e[4] : e \in {BottomExternalVs[j] : j \in DOMAIN BottomExternalVs}
                        \cup {BottomCapsuleVs[j] : j \in DOMAIN BottomCapsuleVs}}

FrontNames == {BaseVs[j][4] : j \in {i \in DOMAIN BaseVs : BaseVs[i][2] = "posYmax"}}

BackNames == {BaseVs[j][4] : j \in {i \in DOMAIN BaseVs : BaseVs[i][2] = "negYmax"}}

\* as HalfShare, the factor 0.5 left out
HalfShare_full(Nz, span, total) == (Nz * span) \div total

\* int(0.5 * Nz * span / total), span and total given in tenths of a degree
\* (87.3/200.5 is 873/2005); int() truncates, the value is positive
HalfShare(Nz, span, total) == (Nz * span) \div (2 * total)

\* as TopBlocks, b3 listing the body-contour corner before the far-field one
TopBlocks_flipped ==
    << << <<"v2f", "c2f", "c2b", "v2b", "v1f", "c1f", "c1b", "v1b">>,
          873, 2005, 0, "b1" >>,
       << <<"v3f", "c3f", "c3b", "v3b", "v2f", "c2f", "c2b", "v2b">>,
          566, 2005, 2, "b2" >>,
       << <<"c4f", "v4f", "v4b", "c4b", "c3f", "v3f", "v3b", "c3b">>,
          566, 2005, -1, "b3" >>,
       << <<"v5f", "c5f", "c5b", "v5b", "v4f", "c4f", "c4b", "v4b">>,
          1131, 2330, 4, "b4" >>,
       << <<"v6f", "c6f", "c6b", "v6b", "v5f", "c5f", "c5b", "v5b">>,
          1200, 2330, -4, "b5" >> >>

\* hex blocks: corner names, span, total, offset added after int(), name
TopBlocks ==
    << << <<"v2f", "c2f", "c2b", "v2b", "v1f", "c1f", "c1b", "v1b">>,
          873, 2005, 0, "b1" >>,
       << <<"v3f", "c3f", "c3b", "v3b", "v2f", "c2f", "c2b", "v2b">>,
          566, 2005, 2, "b2" >>,
       << <<"v4f", "c4f", "c4b", "v4b", "v3f", "c3f", "c3b", "v3b">>,
          566, 2005, -1, "b3" >>,
       << <<"v5f", "c5f", "c5b", "v5b", "v4f", "c4f", "c4b", "v4b">>,
          1131, 2330, 4, "b4" >>,
       << <<"v6f", "c6f", "c6b", "v6b", "v5f", "c5f", "c5b", "v5b">>,
          1200, 2330, -4, "b5" >> >>

\* as BottomBlocks, b10 listing station 10 before station 1
BottomBlocks_swapped ==
    << << <<"v7f", "c7f", "c7b", "v7b", "v6f", "c6f", "c6b", "v6b">>,
          1200, 2330, -4, "b6" >>,
       << <<"v8f", "c8f", "c8b", "v8b", "v7f", "c7f", "c7b", "v7b">>,
          1131, 2330, 4, "b7" >>,
       << <<"v9f", "c9f", "c9b", "v9b", "v8f", "c8f", "c8b", "v8b">>,
          566, 2005, -1, "b8" >>,
       << <<"v10f", "c10f", "c10b", "v10b", "v9f", "c9f", "c9b", "v9b">>,
          566, 2005, 2, "b9" >>,
       << <<"v10f", "c10f", "c10b", "v10b", "v1f", "c1f", "c1b", "v1b">>,
          873, 2005, 0, "b10" >> >>

BottomBlocks ==
    << << <<"v7f", "c7f", "c7b", "v7b", "v6f", "c6f", "c6b", "v6b">>,
          1200, 2330, -4, "b6" >>,
       << <<"v8f", "c8f", "c8b", "v8b", "v7f", "c7f", "c7b", "v7b">>,
          1131, 2330, 4, "b7" >>,
       << <<"v9f", "c9f", "c9b", "v9b", "v8f", "c8f", "c8b", "v8b">>,
          566, 2005, -1, "b8" >>,
       << <<"v10f", "c10f", "c10b", "v10b", "v9f", "c9f", "c9b", "v9b">>,
          566, 2005, 2, "b9" >>,
       << <<"v1f", "c1f", "c1b", "v1b", "v10f", "c10f", "c10b", "v10b">>,
          873, 2005, 0, "b10" >> >>

HexBlocks == TopBlocks \o BottomBlocks

\* as Cells, the offset added inside int(), to the fraction
Cells_inside(o, b) ==
    << o.Nx, o.Ny, HalfShare(o.Nz, b[2] + b[4] * b[3], b[3]) >>

\* as Cells, the total Nz scaled with the diameter like the lengths
Cells_scaled(o, b) ==
    << o.Nx, o.Ny, HalfShare(PerRef(o.Nz, o.diameter), b[2], b[3]) + b[4] >>

\* the cell-count triple of a block
Cells(o, b) == << o.Nx, o.Ny, HalfShare(o.Nz, b[2], b[3]) + b[4] >>

\* SimpleGrading(expandX, expandY, expandZ)
SimpleGrading(o) == << o.expandX, o.expandY, o.expandZ >>

\* arc edges: the two end names, edge name, and the mid Vertex as
\* x attribute, y attribute, z attribute, name
TopArcs ==
    << << "c1f", "c2f", "capsuleFront12", "cx12", "posYmax", "cz12", "c12f" >>,
       << "c1b", "c2b", "capsuleBac12",   "cx12", "negYmax", "cz12", "c12b" >>,
       << "v1f", "v2f", "inletFront12",   "ex12", "posYmax", "ez12", "e12f" >>,
       << "v1b", "v2b", "inletBack12",    "ex12", "negYmax", "ez12", "e12b" >>,
       << "v4f", "v5f", "outletFront45",  "ex45", "posYmax", "ez45", "e45f" >>,
       << "v4b", "v5b", "outletBack45",   "ex45", "negYmax", "ez45", "e45b" >>,
       << "v5f", "v6f", "outletFront56",  "ex56", "posYmax", "ez56", "e56f" >>,
       << "v5b", "v6b", "outletBack56",   "ex56", "negYmax", "ez56", "e56b" >> >>

\* as BottomArcs, the back arc 7-8 keeping the edge name of the front one
BottomArcs_samename ==
    << << "v6f", "v7f", "outletFront67",  "ex67", "posYmax", "ez67", "e67f" >>,
       << "v6b", "v7b", "outletBack67",   "ex67", "negYmax", "ez67", "e67b" >>,
       << "v7f", "v8f", "outletFront78",  "ex78", "posYmax", "ez78", "e78f" >>,
       << "v7b", "v8b", "outletFront78",  "ex78", "negYmax", "ez78", "e78f" >>,
       << "v10f", "v1f", "inletFront1011", "ex1011", "posYmax", "ez1011", "e1011f" >>,
       << "v10b", "v1b", "inletBack1011",  "ex1011", "negYmax", "ez1011", "e1011b" >>,
       << "c10f", "c1f", "capsuleFront1011", "cx1011", "posYmax", "cz1011", "c1011f" >>,
       << "c10b", "c1b", "capsuleBack1011",  "cx1011", "negYmax", "cz1011", "c1011b" >> >>

BottomArcs ==
    << << "v6f", "v7f", "outletFront67",  "ex67", "posYmax", "ez67", "e67f" >>,
       << "v6b", "v7b", "outletBack67",   "ex67", "negYmax", "ez67", "e67b" >>,
       << "v7f", "v8f", "outletFront78",  "ex78", "posYmax", "ez78", "e78f" >>,
       << "v7b", "v8b", "outletBack78",   "ex78", "negYmax", "ez78", "e78f" >>,
       << "v10f", "v1f", "inletFront1011", "ex1011", "posYmax", "ez1011", "e1011f" >>,
       << "v10b", "v1b", "inletBack1011",  "ex1011", "negYmax", "ez1011", "e1011b" >>,
       << "c10f", "c1f", "capsuleFront1011", "cx1011", "posYmax", "cz1011", "c1011f" >>,
       << "c10b", "c1b", "capsuleBack1011",  "cx1011", "negYmax", "cz1011", "c1011b" >> >>

ArcEdges == TopArcs \o BottomArcs

\* spline edges: the two end names, edge name, x array, y attribute,
\* z array, prefix of the point names
\* as SplineEdges, the bottom outlet front spline keeping the top end 'v3f'
SplineEdges_stale ==
    << << "v2f", "v3f", "inletFrontSpline",  "ex23", "posYmax", "ez23", "ifs" >>,
       << "v2b", "v3b", "inletBackSpline",   "ex23", "negYmax", "ez23", "ibs" >>,
       << "v4f", "v3f", "outletFrontSpline", "ex34", "posYmax", "ez34", "ofs" >>,
       << "v4b", "v3b", "outletBackSpline",  "ex34", "negYmax", "ez34", "obs" >>,
       << "v8f", "v3f", "outletFrontSplineBottom", "ex89", "posYmax", "ez89", "ofs" >>,
       << "v8b", "v9b", "outletBackSplineBottom",  "ex89", "negYmax", "ez89", "obs" >>,
       << "v10f", "v9f", "inletFrontSplineb", "ex910", "posYmax", "ez910", "ifs" >>,
       << "v10b", "v9b", "inletBackSplineb",  "ex910", "negYmax", "ez910", "ibs" >> >>

SplineEdges ==
    << << "v2f", "v3f", "inletFrontSpline",  "ex23", "posYmax", "ez23", "ifs" >>,
       << "v2b", "v3b", "inletBackSpline",   "ex23", "negYmax", "ez23", "ibs" >>,
       << "v4f", "v3f", "outletFrontSpline", "ex34", "posYmax", "ez34", "ofs" >>,
       << "v4b", "v3b", "outletBackSpline",  "ex34", "negYmax", "ez34", "obs" >>,
       << "v8f", "v9f", "outletFrontSplineBottom", "ex89", "posYmax", "ez89", "ofs" >>,
       << "v8b", "v9b", "outletBackSplineBottom",  "ex89", "negYmax", "ez89", "obs" >>,
       << "v10f", "v9f", "inletFrontSplineb", "ex910", "posYmax", "ez910", "ifs" >>,
       << "v10b", "v9b", "inletBackSplineb",  "ex910", "negYmax", "ez910", "ibs" >> >>

\* the list built by the zip loop: Vertex(x, y, z, prefix + str(i)), i from 0
SplinePoints(o, e) ==
    [j \in 1..Len(o[e[4]]) |->
        Vertex(o[e[4]][j], o[e[5]], o[e[6]][j], e[7] \o ToString(j - 1))]

\* Block.face(direction) of the block bound to the variable b<n>
Face(block, dir) == [block |-> block, dir |-> dir]

\* as Boundaries, b8 left out of the inlet patch
Boundaries_gap ==
    << << "patch", "inlet",
          << Face("b1", "w"), Face("b2", "w"), Face("b3", "w"),
             Face("b9", "w"), Face("b10", "w") >> >>,
       << "patch", "outlet",
          << Face("b4", "w"), Face("b5", "w"), Face("b6", "w"),
             Face("b7", "w") >> >>,
       << "wall", "wall",
          << Face("b1", "e"), Face("b2", "e"), Face("b3", "e"),
             Face("b4", "e"), Face("b5", "e"), Face("b6", "e"),
             Face("b7", "e"), Face("b8", "e"), Face("b9", "e"),
             Face("b10", "e") >> >> >>

\* boundaries: type, name, faces
Boundaries ==
    << << "patch", "inlet",
          << Face("b1", "w"), Face("b2", "w"), Face("b3", "w"),
             Face("b8", "w"), Face("b9", "w"), Face("b10", "w") >> >>,
       << "patch", "outlet",
          << Face("b4", "w"), Face("b5", "w"), Face("b6", "w"),
             Face("b7", "w") >> >>,
       << "wall", "wall",
          << Face("b1", "e"), Face("b2", "e"), Face("b3", "e"),
             Face("b4", "e"), Face("b5", "e"), Face("b6", "e"),
             Face("b7", "e"), Face("b8", "e"), Face("b9", "e"),
             Face("b10", "e") >> >> >>

\* the face keywords of the helper named in the method's comment
FaceDirs == {"s", "n", "e", "b", "t", "w"}

\* ------------------------------------------------------------------------
\* State
\* ------------------------------------------------------------------------
VARIABLES
    self,       \* the Capsule2D instance: attribute name -> value
    pc,         \* position of the script
    idx,        \* position inside the current section of to_blockMesh_dict2
    basevs,     \* the local list basevs
    vertices,   \* bmd.vertices:   name -> Vertex
    blocks,     \* bmd.blocks:     name -> hex block
    edges,      \* bmd.edges:      name -> arc or spline edge
    boundaries, \* bmd.boundaries: name -> boundary
    file        \* the file at filePath/blockMeshDict, as an observer sees it

bmd == << vertices, blocks, edges, boundaries >>

vars == << self, pc, idx, basevs, vertices, blocks, edges, boundaries, file >>

Init ==
    /\ \E k \in Diameters : self = Constructor(k * (Unit \div 10))
    /\ pc = "script"
    /\ idx = 0
    /\ basevs = << >>
    /\ vertices = << >>
    /\ blocks = << >>
    /\ edges = << >>
    /\ boundaries = << >>
    /\ file = "untouched"

\* a call of a geometry method from the script
Stage(obj, ok) ==
    /\ pc = "script"
    /\ self' = obj
    /\ pc' = IF ok THEN "script" ELSE "failed"
    /\ UNCHANGED << idx, basevs, bmd, file >>

CallMainPoints == Stage(main_points(self), TRUE)

CallInletSpline ==
    IF "ex2" \in DOMAIN self
    THEN Stage(inlet_spline(self), TRUE)
    ELSE Stage(self, FALSE)

CallOutletSpline ==
    IF "ex4" \in DOMAIN self
    THEN Stage(outlet_spline(self), TRUE)
    ELSE Stage(self, FALSE)

CallCapsulePoints == Stage(capsule_points(self), TRUE)

CallBottomPoints ==
    LET r == bottom_points(self)
    IN  Stage(r.obj, r.ok)

\* the attributes the basevs list reads
BaseVsReads == UNION {{BaseVs[j][1], BaseVs[j][2], BaseVs[j][3]} : j \in DOMAIN BaseVs}

\* to_blockMesh_dict2, up to the end of the basevs list
BuildBaseVs ==
    /\ pc = "script"
    /\ IF BaseVsReads \subseteq DOMAIN self
       THEN /\ basevs' = [j \in DOMAIN BaseVs |->
                            Vertex(self[BaseVs[j][1]], self[BaseVs[j][2]],
                                   self[BaseVs[j][3]], BaseVs[j][4])]
            /\ pc' = "vertices"
            /\ idx' = 1
       ELSE /\ pc' = "failed"
            /\ UNCHANGED << basevs, idx >>
    /\ UNCHANGED << self, bmd, file >>

\* one round of "for v in basevs: bmd.add_vertex(round(..), .., v.name)"
AddVertex ==
    /\ pc = "vertices"
    /\ LET v == basevs[idx]
       IN  vertices' = SetAttr(vertices, v.name,
                Vertex(Round4(v.x), Round4(v.y), Round4(v.z), v.name))
    /\ IF idx = Len(basevs)
       THEN pc' = "blocks" /\ idx' = 1
       ELSE pc' = pc /\ idx' = idx + 1
    /\ UNCHANGED << self, basevs, blocks, edges, boundaries, file >>

\* b<idx> = bmd.add_hexblock(names, cells, name, grading)
AddHexBlock ==
    /\ pc = "blocks"
    /\ LET b == HexBlocks[idx]
       IN  blocks' = SetAttr(blocks, b[5],
                [vnames |-> b[1], cells |-> Cells(self, b), name |-> b[5],
                 grading |-> SimpleGrading(self)])
    /\ IF idx = Len(HexBlocks)
       THEN pc' = "arcs" /\ idx' = 1
       ELSE pc' = pc /\ idx' = idx + 1
    /\ UNCHANGED << self, basevs, vertices, edges, boundaries, file >>

\* p = Vertex(..); bmd.add_arcedge((v1, v2), name, p)
AddArcEdge ==
    /\ pc = "arcs"
    /\ LET e == ArcEdges[idx]
       IN  edges' = SetAttr(edges, e[3],
                [kind |-> "arc", vnames |-> << e[1], e[2] >>, name |-> e[3],
                 points |-> << Vertex(self[e[4]], self[e[5]], self[e[6]], e[7]) >>])
    /\ IF idx = Len(ArcEdges)
       THEN pc' = "splines" /\ idx' = 1
       ELSE pc' = pc /\ idx' = idx + 1
    /\ UNCHANGED << self, basevs, vertices, blocks, boundaries, file >>

\* the zip loop of one list and bmd.add_splineedge((v1, v2), name, list)
AddSplineEdge ==
    /\ pc = "splines"
    /\ LET e == SplineEdges[idx]
       IN  edges' = SetAttr(edges, e[3],
                [kind |-> "spline", vnames |-> << e[1], e[2] >>, name |-> e[3],
                 points |-> SplinePoints(self, e)])
    /\ IF idx = Len(SplineEdges)
       THEN pc' = "boundaries" /\ idx' = 1
       ELSE pc' = pc /\ idx' = idx + 1
    /\ UNCHANGED << self, basevs, vertices, blocks, boundaries, file >>

\* bmd.add_boundary(type, name, faces)
AddBoundary ==
    /\ pc = "boundaries"
    /\ LET b == Boundaries[idx]
       IN  boundaries' = SetAttr(boundaries, b[2],
                [type |-> b[1], name |-> b[2], faces |-> b[3]])
    /\ IF idx = Len(Boundaries)
       THEN pc' = "assign" /\ idx' = 0
       ELSE pc' = pc /\ idx' = idx + 1
    /\ UNCHANGED << self, basevs, vertices, blocks, edges, file >>

\* bmd.assign_vertexid(): looks up every corner name of every block
AssignVertexId ==
    /\ pc = "assign"
    /\ pc' = IF \A b \in DOMAIN blocks :
                  \A j \in DOMAIN blocks[b].vnames :
                      blocks[b].vnames[j] \in DOMAIN vertices
             THEN "open" ELSE "failed"
    /\ UNCHANGED << self, idx, basevs, bmd, file >>

\* WriteTxtFile = open(fullpath, "w"): creates or truncates the file, or
\* raises and leaves it alone
OpenFile ==
    /\ pc = "open"
    /\ \E ok \in BOOLEAN :
          IF ok THEN file' = "empty" /\ pc' = "write"
                ELSE file' = file /\ pc' = "failed"
    /\ UNCHANGED << self, idx, basevs, bmd >>

\* WriteTxtFile.write(bmd.format()): the text goes through the file
\* object's buffer, so part or all of it is in the file afterwards; a
\* failed write leaves the file empty or with a part of the text
WriteFile ==
    /\ pc = "write"
    /\ \E ok \in BOOLEAN :
          IF ok THEN file' \in {"partial", "complete"} /\ pc' = "close"
                ELSE file' \in {"empty", "partial"} /\ pc' = "failed"
    /\ UNCHANGED << self, idx, basevs, bmd >>

\* WriteTxtFile.close(): flushes the buffer
CloseFile ==
    /\ pc = "close"
    /\ file' = "complete"
    /\ pc' = "done"
    /\ UNCHANGED << self, idx, basevs, bmd >>

Next ==
    \/ CallMainPoints
    \/ CallInletSpline
    \/ CallOutletSpline
    \/ CallCapsulePoints
    \/ CallBottomPoints
    \/ BuildBaseVs
    \/ AddVertex
    \/ AddHexBlock
    \/ AddArcEdge
    \/ AddSplineEdge
    \/ AddBoundary
    \/ AssignVertexId
    \/ OpenFile
    \/ WriteFile
    \/ CloseFile

Spec == Init /\ [][Next]_vars

\* ------------------------------------------------------------------------
\* Properties
\* ------------------------------------------------------------------------
Range(f) == {f[j] : j \in DOMAIN f}

\* the add_vertex loop has run to its end in this execution
VerticesDeclared == basevs # << >> /\ pc \notin {"script", "vertices"}

\* C1: after the full pipeline to_blockMesh_dict2 declares exactly 44
\* vertices with pairwise distinct names: every add_vertex call adds a new
\* name (none overwrites an earlier one), no bottom-half name equals a
\* top-half name and no front name equals a back name.
C1_DistinctVertexNames ==
    /\ pc = "vertices" => Cardinality(DOMAIN vertices) = idx - 1
    /\ VerticesDeclared =>
          /\ Len(basevs) = 44
          /\ Cardinality(DOMAIN vertices) = 44
          /\ \A i, j \in DOMAIN basevs :
                basevs[i].name = basevs[j].name => i = j
    /\ (DOMAIN vertices \cap TopNames) \cap (DOMAIN vertices \cap BottomNames) = {}
    /\ (DOMAIN vertices \cap FrontNames) \cap (DOMAIN vertices \cap BackNames) = {}
    /\ DOMAIN vertices \subseteq (TopNames \cup BottomNames)

C1_Witness ==
    /\ pc = "done"
    /\ Cardinality(DOMAIN vertices) = 44
    /\ {"v10f", "v2f", "c7b", "c5b"} \subseteq DOMAIN vertices

\* C2: referential integrity: the eight corner names of every block are
\* declared vertices when the block is added; both end names of every arc
\* and spline edge are declared and are corners of one same block; every
\* block used in a boundary patch is one of the blocks built.
C2_ReferentialIntegrity ==
    /\ \A b \in DOMAIN blocks :
          /\ Len(blocks[b].vnames) = 8
          /\ Range(blocks[b].vnames) \subseteq DOMAIN vertices
    /\ \A e \in DOMAIN edges :
          /\ Len(edges[e].vnames) = 2
          /\ Range(edges[e].vnames) \subseteq DOMAIN vertices
          /\ \E b \in DOMAIN blocks :
                Range(edges[e].vnames) \subseteq Range(blocks[b].vnames)
    /\ \A p \in DOMAIN boundaries :
          \A f \in Range(boundaries[p].faces) : f.block \in DOMAIN blocks
    /\ boundaries # << >> => Cardinality(DOMAIN blocks) = 10

C2_Witness ==
    /\ pc = "assign"
    /\ Cardinality(DOMAIN blocks) = 10
    /\ Cardinality(DOMAIN edges) = 24
    /\ Cardinality(DOMAIN boundaries) = 3

\* every point record of the topology: the declared vertices, the arc
\* midpoints and the spline points
PointRecords ==
    {vertices[n] : n \in DOMAIN vertices}
        \cup UNION {Range(edges[e].points) : e \in DOMAIN edges}

\* C3: within one build any two point records with the same name have the
\* same (x, y, z) coordinates (declared vertices, arc midpoints and spline
\* points alike).
C3_SameNameSameCoordinates ==
    \A p, q \in PointRecords : p.name = q.name => p = q

\* the ten block names in ring order
BlockName(i) == "b" \o ToString(i)

RingSucc(i) == IF i = 10 THEN 1 ELSE i + 1

RingNeighbours(i, j) == j = RingSucc(i) \/ i = RingSucc(j)

\* the add_hexblock section has run to its end in this execution
BlocksBuilt == basevs # << >> /\ pc \notin {"script", "vertices", "blocks"}

\* C4: exactly ten blocks b1..b10 are built and form a closed ring: block i
\* and its successor (b1 after b10) share exactly four corner names, the
\* first four corners of block i, which are the last four of the
\* successor; blocks that are not ring neighbours share no corner name.
C4_ClosedRing ==
    BlocksBuilt =>
       /\ DOMAIN blocks = {BlockName(i) : i \in 1..10}
       /\ Cardinality(DOMAIN blocks) = 10
       /\ \A i \in 1..10 :
             LET b == blocks[BlockName(i)].vnames
                 n == blocks[BlockName(RingSucc(i))].vnames
             IN  /\ SubSeq(b, 1, 4) = SubSeq(n, 5, 8)
                 /\ Range(b) \cap Range(n) = Range(SubSeq(b, 1, 4))
                 /\ Cardinality(Range(b) \cap Range(n)) = 4
       /\ \A i, j \in 1..10 :
             (i # j /\ ~RingNeighbours(i, j)) =>
                Range(blocks[BlockName(i)].vnames)
                    \cap Range(blocks[BlockName(j)].vnames) = {}

C4_Witness ==
    /\ pc = "arcs"
    /\ idx = 1
    /\ "b10" \in DOMAIN blocks
    /\ blocks["b10"].vnames[1] = "v1f"
    /\ blocks["b1"].vnames[5] = "v1f"

\* the add_boundary section has run to its end in this execution
BoundariesBuilt ==
    basevs # << >> /\ pc \in {"assign", "open", "write", "close", "done", "failed"}

\* the number of faces of patch p that belong to block b
FacesOf(p, b) ==
    Cardinality({j \in DOMAIN boundaries[p].faces :
                    boundaries[p].faces[j].block = b})

\* C5: exactly three boundary patches inlet, outlet and wall are created;
\* every one of the ten blocks has exactly two face references, one in wall
\* and one in exactly one of inlet and outlet; every face direction is one
\* of w, e, s, n, b, t.
C5_PatchesCoverBlocksTwice ==
    BoundariesBuilt =>
       /\ DOMAIN boundaries = {"inlet", "outlet", "wall"}
       /\ \A b \in DOMAIN blocks :
             /\ FacesOf("wall", b) = 1
             /\ FacesOf("inlet", b) + FacesOf("outlet", b) = 1
       /\ \A p \in DOMAIN boundaries :
             \A f \in Range(boundaries[p].faces) :
                f.dir \in FaceDirs /\ f.block \in DOMAIN blocks

C5_Witness ==
    /\ pc = "assign"
    /\ Cardinality(DOMAIN boundaries) = 3
    /\ Cardinality(DOMAIN blocks) = 10
    /\ FacesOf("inlet", "b8") = 1
    /\ FacesOf("outlet", "b4") = 1

RECURSIVE SumZ(_, _)
\* the sum of the third-axis cell counts of blocks b<from>..b<to>
SumZ(from, to) ==
    IF from > to THEN 0
    ELSE blocks[BlockName(from)].cells[3] + SumZ(from + 1, to)

\* C6 as stated: the circumferential cell counts of the ten blocks sum to
\* the configured Nz = 121.
C6_SumIsNz ==
    BlocksBuilt => self.Nz = 121 /\ SumZ(1, 10) = self.Nz

\* C6 amended: the circumferential cell counts of b1..b5 sum to Nz = 121,
\* those of b6..b10 sum to Nz = 121, and the ten together sum to
\* 2 * Nz = 242.
C6_SumIsTwiceNz ==
    BlocksBuilt =>
       /\ self.Nz = 121
       /\ SumZ(1, 5) = self.Nz
       /\ SumZ(6, 10) = self.Nz
       /\ SumZ(1, 10) = 2 * self.Nz

C6_Witness ==
    /\ pc = "done"
    /\ SumZ(1, 10) = 242

\* the table row of the block called name
BlockRow(name) ==
    HexBlocks[CHOOSE j \in DOMAIN HexBlocks : HexBlocks[j][5] = name]

\* what was added to int(0.5*Nz*span/total) to get the block's count
OffsetOf(name) ==
    blocks[name].cells[3]
        - HalfShare(self.Nz, BlockRow(name)[2], BlockRow(name)[3])

\* C7 as stated: for every block the integer added to the truncated
\* circumferential cell count lies in -4..+2.
C7_OffsetsUpToTwo ==
    \A b \in DOMAIN blocks : OffsetOf(b) \in -4..2

\* C7 amended: for every block the integer added to the truncated
\* circumferential cell count lies in -4..+4 (b4 and b7 add +4).
C7_OffsetsUpToFour ==
    /\ \A b \in DOMAIN blocks : OffsetOf(b) \in -4..4
    /\ "b4" \in DOMAIN blocks => OffsetOf("b4") = 4
    /\ "b7" \in DOMAIN blocks => OffsetOf("b7") = 4

C7_Witness ==
    /\ pc = "arcs"
    /\ OffsetOf("b4") = 4
    /\ OffsetOf("b5") = -4
    /\ OffsetOf("b1") = 0

\* the circumferential counts of b1..b10 for Nz = 121
CountsForNz121 == << 26, 19, 16, 33, 27, 27, 33, 16, 19, 26 >>

\* C8: every block's circumferential cell count is strictly positive, for
\* every diameter: the ten counts are the same whatever diameter was given
\* to Capsule2D.
C8_PositiveCounts ==
    \A i \in 1..10 :
        BlockName(i) \in DOMAIN blocks =>
           /\ blocks[BlockName(i)].cells[3] >= 1
           /\ blocks[BlockName(i)].cells[3] = CountsForNz121[i]

C8_Witness ==
    /\ pc = "done"
    /\ self.diameter # 4 * (Unit \div 10)
    /\ blocks["b3"].cells[3] = 16

ArcNames == {e \in DOMAIN edges : edges[e].kind = "arc"}

\* the add_arcedge section has run to its end in this execution
ArcsBuilt ==
    basevs # << >> /\ pc \notin {"script", "vertices", "blocks", "arcs"}

\* C9 as stated: one run attaches exactly 12 arc edges.
C9_TwelveArcs == ArcsBuilt => Cardinality(ArcNames) = 12

\* C9 amended: one run attaches exactly 16 arc edges (eight front/back
\* pairs), each under its own edge name.
C9_SixteenArcs ==
    /\ ArcsBuilt => Cardinality(ArcNames) = 16
    /\ pc = "arcs" => Cardinality(ArcNames) = idx - 1

C9_Witness ==
    /\ pc = "splines"
    /\ idx = 1
    /\ Cardinality(ArcNames) = 16

\* C10: the export is all-or-nothing: the output file is only ever
\* observed untouched or holding the complete text, whatever step fails.
C10_AllOrNothing == file \in {"untouched", "complete"}

\* the mirror table of the claim: kind, bottom label, top label, array or
\* not.  Station k goes to station 12-k for k = 2..5, for the far-field
\* ("e") and the body-contour ("c") points, and the intermediate points
\* go 56->67, 45->78, 34->89, 23->910, 12->1011.
MirrorTable ==
    {<< kind, ToString(12 - k), ToString(k), FALSE >> :
        kind \in {"e", "c"}, k \in 2..5}
      \cup {<< "e", "67", "56", FALSE >>, << "e", "78", "45", FALSE >>,
            << "e", "89", "34", TRUE >>,  << "e", "910", "23", TRUE >>,
            << "e", "1011", "12", FALSE >>, << "c", "1011", "12", FALSE >>}

\* the negation of a z value (of each z value of an array)
NegZ(v, isArray) == IF isArray THEN [j \in DOMAIN v |-> 0 - v[j]] ELSE 0 - v

\* the attributes bottom_points is to assign
MirrorTargets ==
    UNION {{m[1] \o "x" \o m[2], m[1] \o "z" \o m[2]} : m \in MirrorTable}

\* every bottom point of object o that exists has the x of its top point
\* and the negated z, and negating its z again gives the top z back
Mirrored(o) ==
    \A m \in MirrorTable :
        LET bx == m[1] \o "x" \o m[2]
            bz == m[1] \o "z" \o m[2]
            tx == m[1] \o "x" \o m[3]
            tz == m[1] \o "z" \o m[3]
        IN  /\ bx \in DOMAIN o => o[bx] = o[tx]
            /\ bz \in DOMAIN o =>
                  /\ o[bz] = NegZ(o[tz], m[4])
                  /\ NegZ(o[bz], m[4]) = o[tz]

\* C11: bottom_points derives every bottom-half point from its top-half
\* point by keeping x and negating z (station k to station 12-k for
\* k = 2..5, intermediate points 56->67, 45->78, 34->89, 23->910,
\* 12->1011); negating z again gives the top coordinates back exactly; a
\* call that succeeds assigns all of them, and no call changes a top-half
\* attribute.
C11_BottomMirrorsTop ==
    [][CallBottomPoints =>
          /\ Mirrored(self')
          /\ pc' = "script" => MirrorTargets \subseteq DOMAIN self'
          /\ \A n \in (DOMAIN self) \ MirrorTargets :
                n \in DOMAIN self' /\ self'[n] = self[n]]_vars

C11_Witness ==
    /\ pc = "script"
    /\ MirrorTargets \subseteq DOMAIN self
    /\ self.ez2 > 0
    /\ self.ez10 = 0 - self.ez2
    /\ self.ex10 = self.ex2
    /\ self.ez89[1] = 0 - self.ez34[1]
    /\ self.cz8 = 0 - self.cz4

\* which stages have run to their end, told by the last attribute each
\* one assigns
MainRan == "ez56" \in DOMAIN self

InletRan == "ez23" \in DOMAIN self

OutletRan == "ez34" \in DOMAIN self

CapsuleRan == "cz6" \in DOMAIN self

BottomRan == "cz1011" \in DOMAIN self

\* the step makes the script fail and leaves the output file alone
FailsUnwritten == pc' = "failed" /\ file' = "untouched" /\ file = "untouched"

\* C12: in the fixed order constructor, main_points, inlet_spline,
\* outlet_spline, capsule_points, bottom_points, to_blockMesh_dict2 every
\* stage finds the attributes it reads, so none fails; a stage run before
\* one that produces an attribute it reads (a spline stage before
\* main_points, bottom_points before a spline stage or capsule_points,
\* to_blockMesh_dict2 before bottom_points) fails on the missing
\* attribute, the script stops there and no output file is written.
C12_StageOrder ==
    [][/\ CallMainPoints => pc' = "script"
       /\ CallCapsulePoints => pc' = "script"
       /\ CallInletSpline =>
             IF MainRan THEN pc' = "script" ELSE FailsUnwritten
       /\ CallOutletSpline =>
             IF MainRan THEN pc' = "script" ELSE FailsUnwritten
       /\ CallBottomPoints =>
             IF MainRan /\ InletRan /\ OutletRan /\ CapsuleRan
             THEN pc' = "script" ELSE FailsUnwritten
       /\ BuildBaseVs =>
             IF BottomRan THEN pc' = "vertices" ELSE FailsUnwritten
       /\ file' # file => MainRan /\ InletRan /\ OutletRan /\ CapsuleRan /\ BottomRan
       /\ pc # "failed"]_vars

C12_Witness ==
    /\ pc = "failed"
    /\ file = "untouched"
    /\ basevs = << >>
    /\ MainRan /\ OutletRan /\ CapsuleRan
    /\ ~InletRan
    /\ "ez89" \in DOMAIN self
    /\ "ex9" \in DOMAIN self
    /\ "ex910" \notin DOMAIN self

\* the name of a declared point: kind "v" or "c", station, side "f" or "b"
VName(kind, station, side) == kind \o ToString(station) \o side

SplineNames == {e \in DOMAIN edges : edges[e].kind = "spline"}

\* the add_splineedge section has run to its end in this execution
SplinesBuilt ==
    basevs # << >>
        /\ pc \notin {"script", "vertices", "blocks", "arcs", "splines"}

\* the station pairs the spline edges join, first-named end first
SplineStations == {<< 2, 3 >>, << 4, 3 >>, << 8, 9 >>, << 10, 9 >>}

\* the spline edge between the declared points of two stations on a side
SplineBetween(st, side) ==
    CHOOSE e \in SplineNames :
        edges[e].vnames = << VName("v", st[1], side), VName("v", st[2], side) >>

\* x changes strictly monotonically along a point list
MonotoneX(pts) ==
    \/ \A j \in 1..(Len(pts) - 1) : pts[j].x < pts[j + 1].x
    \/ \A j \in 1..(Len(pts) - 1) : pts[j].x > pts[j + 1].x

\* the point list has 10 points, x monotone, and ends at x = 0 with
\* |z| = posZmax/0.4*diameter, the x and z of the second-named endpoint
SplineShape(e) ==
    LET pts  == edges[e].points
        last == pts[Len(pts)]
        v2nd == vertices[edges[e].vnames[2]]
    IN  /\ Len(pts) = 10
        /\ MonotoneX(pts)
        /\ last.x = 0
        /\ Abs(last.z) = PerRef(self.posZmax, self.diameter)
        /\ last.x = v2nd.x
        /\ last.z = v2nd.z

\* the first point has the x of the first-named endpoint
SplineStartsAtEndpoint(e) ==
    edges[e].points[1].x = vertices[edges[e].vnames[1]].x

\* the front and the back copy of a spline differ only in y
FrontBackAlike(st) ==
    LET f == edges[SplineBetween(st, "f")].points
        b == edges[SplineBetween(st, "b")].points
    IN  /\ Len(f) = Len(b)
        /\ \A j \in DOMAIN f :
              f[j].x = b[j].x /\ f[j].z = b[j].z /\ f[j].y # b[j].y

\* the parts of C13 other than the start of the list
SplinesWellFormed ==
    SplinesBuilt =>
       /\ Cardinality(SplineNames) = 8
       /\ \A st \in SplineStations : \A side \in {"f", "b"} :
             \E e \in SplineNames :
                edges[e].vnames =
                    << VName("v", st[1], side), VName("v", st[2], side) >>
       /\ \A e \in SplineNames : SplineShape(e)
       /\ \A st \in SplineStations : FrontBackAlike(st)

\* C13: each of the eight spline edges carries exactly 10 points ordered
\* like its endpoint pair: the first point has the x of the first-named
\* endpoint (v2, v4, v8 or v10), x changes monotonically, the last point
\* is at x = 0 with |z| = posZmax/0.4*diameter, the x and z of the
\* second-named endpoint (v3 or v9); front and back copies differ only
\* in y.
C13_SplinePoints ==
    /\ SplinesWellFormed
    /\ \A e \in SplineNames : SplineStartsAtEndpoint(e)

\* the corner positions (counted from 0) of a face in the helper's
\* convention: 'w' is corners 0,4,7,3 and 'e' is corners 1,2,6,5
FaceCorners(dir) ==
    CASE dir = "w" -> << 0, 4, 7, 3 >>
      [] dir = "e" -> << 1, 2, 6, 5 >>

\* the corner names of a face of a block that was built
FaceNames(f) ==
    {blocks[f.block].vnames[FaceCorners(f.dir)[j] + 1] : j \in 1..4}

FarFieldNames == {VName("v", st, side) : st \in 1..10, side \in {"f", "b"}}

ContourNames == {VName("c", st, side) : st \in 1..10, side \in {"f", "b"}}

\* the corner layout of the claim for block i: station i+1 (1 for b10) in
\* positions 0..3 and station i in 4..7; 'v' at 0,3,4,7 and 'c' at 1,2,5,6;
\* front at 0,1,4,5 and back at 2,3,6,7
Layout(i) ==
    LET s == RingSucc(i)
    IN  << VName("v", s, "f"), VName("c", s, "f"),
           VName("c", s, "b"), VName("v", s, "b"),
           VName("v", i, "f"), VName("c", i, "f"),
           VName("c", i, "b"), VName("v", i, "b") >>

\* C14: all ten blocks use one corner layout (station i+1 in positions
\* 0..3, station i in 4..7; far-field names at 0,3,4,7, body-contour names
\* at 1,2,5,6; front at 0,1,4,5, back at 2,3,6,7), so every face put in
\* the wall patch ('e') has only body-contour corners and every face put
\* in inlet or outlet ('w') has only far-field corners.
C14_OneCornerLayout ==
    /\ \A i \in 1..10 :
          BlockName(i) \in DOMAIN blocks =>
             blocks[BlockName(i)].vnames = Layout(i)
    /\ \A p \in DOMAIN boundaries :
          \A f \in Range(boundaries[p].faces) :
             /\ p = "wall" => f.dir = "e" /\ FaceNames(f) \subseteq ContourNames
             /\ p \in {"inlet", "outlet"} =>
                   f.dir = "w" /\ FaceNames(f) \subseteq FarFieldNames
             /\ Cardinality(FaceNames(f)) = 4
    /\ BoundariesBuilt =>
          /\ Cardinality(Range(boundaries["wall"].faces)) = 10
          /\ Cardinality(Range(boundaries["inlet"].faces)
                            \cup Range(boundaries["outlet"].faces)) = 10

C14_Witness ==
    /\ pc = "assign"
    /\ Cardinality(DOMAIN blocks) = 10
    /\ FaceNames(Face("b10", "e")) = {"c1f", "c1b", "c10f", "c10b"}
    /\ FaceNames(Face("b4", "w")) = {"v5f", "v5b", "v4f", "v4b"}
    /\ Face("b10", "e") \in Range(boundaries["wall"].faces)
    /\ Face("b4", "w") \in Range(boundaries["outlet"].faces)

====
